---- MODULE Spec2Model ----
(***************************************************************************)
(* Model of generate_regions.py: load_bmp, find_color_regions/flood_fill,  *)
(* create_rects/split_into_rects, generate_xml and main.                   *)
(*                                                                         *)
(* A coordinate is <<x, y>>, a rectangle is <<x0, y0, width, height>>.     *)
(* The dicts `regions` and `rects` are insertion-ordered, so they are      *)
(* sequences of records [color, ...] in insertion order.                   *)
(***************************************************************************)
EXTENDS Integers, Sequences, FiniteSets

VARIABLES
    pc,             \* position in main / the function being executed
    file,           \* the file at bmp_file
    img,            \* main's img (None or the loaded image)
    visited,        \* find_color_regions: visited
    regions,        \* find_color_regions: regions (ordered dict)
    sx, sy,         \* find_color_regions: the loop variables x and y
    color,          \* flood_fill: color
    queue,          \* flood_fill: queue
    region_points,  \* flood_fill: region_points
    rects,          \* create_rects: rects (ordered dict)
    ci, ri,         \* create_rects: position in regions.items() / region_list
    points,         \* split_into_rects: points (the remaining set)
    srects,         \* split_into_rects: rects (the local list)
    out,            \* the output file: NoFile, or the <region> elements written
                    \* to it in document order
    enq, seeded, recorded, pops   \* history: per-coordinate queue insertions as a
                    \* neighbour / as a seed, recordings; pops of the current fill

vars == <<pc, file, img, visited, regions, sx, sy, color, queue, region_points,
          rects, ci, ri, points, srects, out, enq, seeded, recorded, pops>>

----------------------------------------------------------------------------
(* Bounds of the model *)

\* the image size load_bmp accepts, scaled down from 6144 x 4096
ExpW == 2
ExpH == 2
\* the two-color images handed directly to find_color_regions have ExtW columns
\* and three rows
ExtW == 3
\* the three-color images handed directly to find_color_regions have NameW
\* columns and two rows
NameW == 2
\* the point sets handed directly to create_rects have at most MaxPoints points
\* of a BoxW x BoxH box
BoxW == 2
BoxH == 3
MaxPoints == 5

Colors == {"A", "B"}

ThreeColors == {"A", "B", "C"}

ExpectedSize == <<ExpW, ExpH>>

Coords(w, h) == (0 .. w - 1) \X (0 .. h - 1)

----------------------------------------------------------------------------
(* Values *)

None == [loaded |-> FALSE, size |-> <<0, 0>>, pixels |-> [c \in {} |-> "A"]]

NoFile == [written |-> FALSE, regions |-> <<>>]

Image(w, h, px) == [loaded |-> TRUE, size |-> <<w, h>>, pixels |-> px]

Unreadable == [readable |-> FALSE, image |-> None]

Files ==
    {Unreadable} \cup
    UNION { { [readable |-> TRUE, image |-> Image(s[1], s[2], px)] :
                px \in [Coords(s[1], s[2]) -> Colors] } :
            s \in (1 .. ExpW) \X (1 .. ExpH) }

Width  == img.size[1]
Height == img.size[2]

----------------------------------------------------------------------------
(* load_bmp and main *)

\* load_bmp without the comparison of img.size
LoadBmpAnySize(f) ==
    IF f.readable THEN f.image ELSE None

LoadBmp(f) ==
    IF f.readable /\ f.image.size = ExpectedSize THEN f.image ELSE None

ZeroCount(i) == [c \in Coords(i.size[1], i.size[2]) |-> 0]

MainLoadFail ==
    /\ pc = "load"
    /\ LoadBmp(file) = None
    /\ img' = None
    /\ pc' = "returned"
    /\ UNCHANGED <<file, visited, regions, sx, sy, color, queue, region_points,
                   rects, ci, ri, points, srects, out, enq, seeded, recorded, pops>>

MainLoadOk ==
    /\ pc = "load"
    /\ LoadBmp(file) # None
    /\ img' = LoadBmp(file)
    /\ pc' = "scan"
    /\ visited' = {}
    /\ regions' = <<>>
    /\ sx' = 0
    /\ sy' = 0
    /\ enq' = ZeroCount(img')
    /\ seeded' = ZeroCount(img')
    /\ recorded' = ZeroCount(img')
    /\ UNCHANGED <<file, color, queue, region_points, rects, ci, ri, points,
                   srects, out, pops>>

----------------------------------------------------------------------------
(* find_color_regions and flood_fill *)

\* the neighbour list without (x-1, y)
NeighborsNoLeft(x, y) == << <<x + 1, y>>, <<x, y + 1>>, <<x, y - 1>> >>

Neighbors(x, y) == << <<x + 1, y>>, <<x - 1, y>>, <<x, y + 1>>, <<x, y - 1>> >>

InBounds(x, y) == ~ (x < 0 \/ y < 0 \/ x >= Width \/ y >= Height)

\* flood_fill without visited.add
MarkVisitedNot(vis, p) == vis

MarkVisited(vis, p) == vis \cup {p}

Occurrences(s, c) == Cardinality({i \in DOMAIN s : s[i] = c})

\* for x in range(width) inside for y in range(height): the next (x, y)
NextScan(x, y) == IF x + 1 < Width THEN <<x + 1, y>> ELSE <<0, y + 1>>

ColorIndex(d, col) ==
    IF \E i \in DOMAIN d : d[i].color = col
    THEN CHOOSE i \in DOMAIN d : d[i].color = col
    ELSE 0

\* a dict that puts a new key before the keys it holds
AddRegionFront(d, col, pts) ==
    IF ColorIndex(d, col) = 0
    THEN <<[color |-> col, comps |-> <<pts>>]>> \o d
    ELSE [d EXCEPT ![ColorIndex(d, col)].comps = Append(@, pts)]

\* regions[color].append(region_points), inserting the key first when absent
AddRegion(d, col, pts) ==
    IF ColorIndex(d, col) = 0
    THEN Append(d, [color |-> col, comps |-> <<pts>>])
    ELSE [d EXCEPT ![ColorIndex(d, col)].comps = Append(@, pts)]

ScanSkip ==
    /\ pc = "scan"
    /\ sy < Height
    /\ <<sx, sy>> \in visited
    /\ sx' = NextScan(sx, sy)[1]
    /\ sy' = NextScan(sx, sy)[2]
    /\ UNCHANGED <<pc, file, img, visited, regions, color, queue, region_points,
                   rects, ci, ri, points, srects, out, enq, seeded, recorded, pops>>

ScanSeed ==
    /\ pc = "scan"
    /\ sy < Height
    /\ <<sx, sy>> \notin visited
    /\ color' = img.pixels[<<sx, sy>>]
    /\ queue' = << <<sx, sy>> >>
    /\ region_points' = <<>>
    /\ seeded' = [seeded EXCEPT ![<<sx, sy>>] = @ + 1]
    /\ pops' = 0
    /\ pc' = "fill"
    /\ UNCHANGED <<file, img, visited, regions, sx, sy, rects, ci, ri, points,
                   srects, out, enq, recorded>>

FillStep ==
    /\ pc = "fill"
    /\ queue # <<>>
    /\ pops' = pops + 1
    /\ LET p == Head(queue)
           x == p[1]
           y == p[2]
       IN  IF \/ p \in visited
              \/ ~ InBounds(x, y)
              \/ img.pixels[p] # color
           THEN /\ queue' = Tail(queue)
                /\ UNCHANGED <<visited, region_points, enq, recorded>>
           ELSE /\ visited' = MarkVisited(visited, p)
                /\ region_points' = Append(region_points, p)
                /\ queue' = Tail(queue) \o Neighbors(x, y)
                /\ recorded' = [recorded EXCEPT ![p] = @ + 1]
                /\ enq' = [c \in DOMAIN enq |->
                              enq[c] + Occurrences(Neighbors(x, y), c)]
    /\ UNCHANGED <<pc, file, img, regions, sx, sy, color, rects, ci, ri, points,
                   srects, out, seeded>>

FillReturn ==
    /\ pc = "fill"
    /\ queue = <<>>
    /\ regions' = AddRegion(regions, color, region_points)
    /\ sx' = NextScan(sx, sy)[1]
    /\ sy' = NextScan(sx, sy)[2]
    /\ pc' = "scan"
    /\ UNCHANGED <<file, img, visited, color, queue, region_points, rects, ci, ri,
                   points, srects, out, enq, seeded, recorded, pops>>

ScanReturn ==
    /\ pc = "scan"
    /\ ~ (sy < Height)
    /\ pc' = "create"
    /\ rects' = <<>>
    /\ ci' = 1
    /\ ri' = 1
    /\ UNCHANGED <<file, img, visited, regions, sx, sy, color, queue,
                   region_points, points, srects, out, enq, seeded, recorded, pops>>

----------------------------------------------------------------------------
(* create_rects and split_into_rects *)

RECURSIVE SeqToSet(_)
SeqToSet(s) == IF s = <<>> THEN {} ELSE {Head(s)} \cup SeqToSet(Tail(s))

\* a pop that returns the point and leaves it in the set
PopKeep(pts, p) == pts

Pop(pts, p) == pts \ {p}

Span(x0, width, y) == {<<x, y>> : x \in x0 .. (x0 + width - 1)}

\* a row test that is satisfied by one cell of the span
SpanPresentAny(pts, x0, width, y) == \E x \in x0 .. (x0 + width - 1) : <<x, y>> \in pts

SpanPresent(pts, x0, width, y) == \A x \in x0 .. (x0 + width - 1) : <<x, y>> \in pts

\* while (x0 + width, y0) in points: remove it, width += 1
RECURSIVE ExtendRight(_, _, _, _)
ExtendRight(pts, x0, y0, width) ==
    IF <<x0 + width, y0>> \in pts
    THEN ExtendRight(pts \ {<<x0 + width, y0>>}, x0, y0, width + 1)
    ELSE [pts |-> pts, width |-> width]

\* a range that reaches one row further
DownRangeLastGrown(y0, height) == y0 + height + 1

\* the last value of range(y0 + 1, y0 + height + 1), evaluated once on loop entry
DownRangeLast(y0, height) == y0 + height

\* the body of `for y in range(...)`, from row y to row ylast
RECURSIVE ExtendDown(_, _, _, _, _, _)
ExtendDown(pts, x0, width, height, y, ylast) ==
    IF y > ylast
    THEN [pts |-> pts, height |-> height]
    ELSE IF SpanPresent(pts, x0, width, y)
         THEN ExtendDown(pts \ Span(x0, width, y), x0, width, height + 1, y + 1, ylast)
         ELSE [pts |-> pts, height |-> height]

\* one iteration of `while points`, with p the point that points.pop() returns
Carve(pts, p) ==
    LET x0 == p[1]
        y0 == p[2]
        r  == ExtendRight(Pop(pts, p), x0, y0, 1)
        d  == ExtendDown(r.pts, x0, r.width, 1, y0 + 1, DownRangeLast(y0, 1))
    IN  [pts |-> d.pts, rect |-> <<x0, y0, r.width, d.height>>]

CreateCall ==
    /\ pc = "create"
    /\ ci <= Len(regions)
    /\ rects' = IF ri = 1
                THEN Append(rects, [color |-> regions[ci].color, rects |-> <<>>])
                ELSE rects
    /\ points' = SeqToSet(regions[ci].comps[ri])
    /\ srects' = <<>>
    /\ pc' = "split"
    /\ UNCHANGED <<file, img, visited, regions, sx, sy, color, queue,
                   region_points, ci, ri, out, enq, seeded, recorded, pops>>

SplitIter ==
    /\ pc = "split"
    /\ points # {}
    /\ \E p \in points :
          /\ points' = Carve(points, p).pts
          /\ srects' = Append(srects, Carve(points, p).rect)
    /\ UNCHANGED <<pc, file, img, visited, regions, sx, sy, color, queue,
                   region_points, rects, ci, ri, out, enq, seeded, recorded, pops>>

SplitReturn ==
    /\ pc = "split"
    /\ points = {}
    /\ rects' = [rects EXCEPT ![ci].rects = @ \o srects]
    /\ IF ri < Len(regions[ci].comps)
       THEN ri' = ri + 1 /\ ci' = ci
       ELSE ri' = 1 /\ ci' = ci + 1
    /\ pc' = "create"
    /\ UNCHANGED <<file, img, visited, regions, sx, sy, color, queue,
                   region_points, points, srects, out, enq, seeded, recorded, pops>>

CreateReturn ==
    /\ pc = "create"
    /\ ci > Len(regions)
    /\ pc' = "xml"
    /\ UNCHANGED <<file, img, visited, regions, sx, sy, color, queue,
                   region_points, rects, ci, ri, points, srects, out, enq, seeded,
                   recorded, pops>>

----------------------------------------------------------------------------
(* generate_xml *)

RegionName(idx) == <<"Region_", idx>>

GenerateXml ==
    /\ pc = "xml"
    /\ out' = [written |-> TRUE,
               regions |-> [k \in 1 .. Len(rects) |->
                              [name  |-> RegionName(k),
                               rune  |-> RegionName(k),
                               rects |-> rects[k].rects]]]
    /\ pc' = "done"
    /\ UNCHANGED <<file, img, visited, regions, sx, sy, color, queue,
                   region_points, rects, ci, ri, points, srects, enq, seeded,
                   recorded, pops>>

----------------------------------------------------------------------------
(* Specifications *)

Idle ==
    /\ visited = {}
    /\ regions = <<>>
    /\ sx = 0
    /\ sy = 0
    /\ color = "A"
    /\ queue = <<>>
    /\ region_points = <<>>
    /\ rects = <<>>
    /\ ci = 1
    /\ ri = 1
    /\ points = {}
    /\ srects = <<>>
    /\ out = NoFile
    /\ pops = 0

\* main(bmp_file, output_file) on any file
Init ==
    /\ pc = "load"
    /\ file \in Files
    /\ img = None
    /\ enq = ZeroCount(None)
    /\ seeded = ZeroCount(None)
    /\ recorded = ZeroCount(None)
    /\ Idle

Next ==
    \/ MainLoadFail
    \/ MainLoadOk
    \/ ScanSkip
    \/ ScanSeed
    \/ FillStep
    \/ FillReturn
    \/ ScanReturn
    \/ CreateCall
    \/ SplitIter
    \/ SplitReturn
    \/ CreateReturn
    \/ GenerateXml

Spec == Init /\ [][Next]_vars

\* find_color_regions(image) entered directly
CoreInit(image) ==
    /\ pc = "scan"
    /\ file = [readable |-> TRUE, image |-> image]
    /\ img = image
    /\ enq = ZeroCount(image)
    /\ seeded = ZeroCount(image)
    /\ recorded = ZeroCount(image)
    /\ Idle

\* find_color_regions(img) alone, on every three-row image of two colors
InitExtract ==
    \E px \in [Coords(ExtW, 3) -> Colors] : CoreInit(Image(ExtW, 3, px))

NextExtract ==
    \/ ScanSkip
    \/ ScanSeed
    \/ FillStep
    \/ FillReturn
    \/ ScanReturn

SpecExtract == InitExtract /\ [][NextExtract]_vars

\* find_color_regions, create_rects and generate_xml on every two-row image
\* of three colors
InitNaming ==
    \E px \in [Coords(NameW, 2) -> ThreeColors] : CoreInit(Image(NameW, 2, px))

NextNaming ==
    \/ ScanSkip
    \/ ScanSeed
    \/ FillStep
    \/ FillReturn
    \/ ScanReturn
    \/ CreateCall
    \/ SplitIter
    \/ SplitReturn
    \/ CreateReturn
    \/ GenerateXml

SpecNaming == InitNaming /\ [][NextNaming]_vars

\* find_color_regions and create_rects on the 3 x 3 image of one color
InitScenarioA ==
    CoreInit(Image(3, 3, [c \in Coords(3, 3) |-> "A"]))

NextScenarioA ==
    \/ ScanSkip
    \/ ScanSeed
    \/ FillStep
    \/ FillReturn
    \/ ScanReturn
    \/ CreateCall
    \/ SplitIter
    \/ SplitReturn
    \/ CreateReturn

SpecScenarioA == InitScenarioA /\ [][NextScenarioA]_vars

\* list(S) for a point set S, in row-major order
RECURSIVE SetToSeq(_)
SetToSeq(S) ==
    IF S = {} THEN <<>>
    ELSE LET p == CHOOSE q \in S :
                    \A r \in S : q[2] < r[2] \/ (q[2] = r[2] /\ q[1] <= r[1])
         IN  <<p>> \o SetToSeq(S \ {p})

PointSets ==
    {S \in SUBSET Coords(BoxW, BoxH) : S # {} /\ Cardinality(S) <= MaxPoints}

\* create_rects(regions) entered directly, regions holding one color with one
\* point list
InitSplit ==
    /\ pc = "create"
    /\ file = Unreadable
    /\ img = None
    /\ enq = ZeroCount(None)
    /\ seeded = ZeroCount(None)
    /\ recorded = ZeroCount(None)
    /\ visited = {}
    /\ \E S \in PointSets :
          regions = << [color |-> "A", comps |-> << SetToSeq(S) >>] >>
    /\ sx = 0
    /\ sy = 0
    /\ color = "A"
    /\ queue = <<>>
    /\ region_points = <<>>
    /\ rects = <<>>
    /\ ci = 1
    /\ ri = 1
    /\ points = {}
    /\ srects = <<>>
    /\ out = NoFile
    /\ pops = 0

NextSplit ==
    \/ CreateCall
    \/ SplitIter
    \/ SplitReturn
    \/ CreateReturn

SpecSplit == InitSplit /\ [][NextSplit]_vars

----------------------------------------------------------------------------
(* Vocabulary of the properties *)

Grid == Coords(Width, Height)

RectCells(r) == (r[1] .. (r[1] + r[3] - 1)) \X (r[2] .. (r[2] + r[4] - 1))

Area(r) == r[3] * r[4]

RECURSIVE SumArea(_)
SumArea(rs) == IF rs = <<>> THEN 0 ELSE Area(Head(rs)) + SumArea(Tail(rs))

CellsOf(rs) == UNION {RectCells(rs[j]) : j \in DOMAIN rs}

Adjacent(p, q) ==
    \/ p[1] = q[1] /\ (p[2] = q[2] + 1 \/ q[2] = p[2] + 1)
    \/ p[2] = q[2] /\ (p[1] = q[1] + 1 \/ q[1] = p[1] + 1)

\* the points of S joined to a point of R by a path of 4-adjacent points of S
RECURSIVE Reach(_, _)
Reach(S, R) ==
    LET R2 == R \cup {q \in S : \E r \in R : Adjacent(q, r)}
    IN  IF R2 = R THEN R ELSE Reach(S, R2)

Connected(p, q) ==
    q \in Reach({c \in Grid : img.pixels[c] = img.pixels[p]}, {p})

\* the point lists returned so far by flood_fill, as <<k, j>> positions in regions
Lists == {kj \in (DOMAIN regions) \X (1 .. Width * Height) :
            kj[2] <= Len(regions[kj[1]].comps)}

ListAt(kj) == regions[kj[1]].comps[kj[2]]

\* the rectangles of the catalog, as <<k, j>> positions in rects
Emitted == {kj \in (DOMAIN rects) \X (1 .. Width * Height) :
              kj[2] <= Len(rects[kj[1]].rects)}

SplitInput == SeqToSet(regions[ci].comps[ri])

RowMajor(p) == p[2] * Width + p[1]

FirstPixel(g) ==
    CHOOSE p \in CellsOf(g.rects) :
        \A q \in CellsOf(g.rects) : RowMajor(p) <= RowMajor(q)

SameGroup(p, q) ==
    \E k \in DOMAIN out.regions :
        p \in CellsOf(out.regions[k].rects) /\ q \in CellsOf(out.regions[k].rects)

LoadFails == ~ file.readable \/ file.image.size # ExpectedSize

----------------------------------------------------------------------------
(* Properties *)

\* C1: while split_into_rects carves a point list, the rectangles emitted so
\* far and the remaining points partition that list (nothing outside it is
\* covered, nothing is covered twice); once create_rects has returned, every
\* coordinate of the grid lies in exactly one rectangle of the catalog, and the
\* color key of that rectangle's group is the pixel's color.
C1_Coverage ==
    /\ pc = "split" =>
          /\ CellsOf(srects) \cup points = SplitInput
          /\ SumArea(srects) + Cardinality(points) = Cardinality(SplitInput)
    /\ pc \in {"xml", "done"} =>
          \A p \in Grid :
             /\ Cardinality({kj \in Emitted :
                               p \in RectCells(rects[kj[1]].rects[kj[2]])}) = 1
             /\ \A kj \in Emitted :
                   p \in RectCells(rects[kj[1]].rects[kj[2]])
                      => rects[kj[1]].color = img.pixels[p]

C1_Witness ==
    /\ pc = "done"
    /\ Len(rects) = 2
    /\ \E kj \in Emitted : Area(rects[kj[1]].rects[kj[2]]) >= 2

\* C2: in the written catalog two coordinates of the same color are in the
\* same group if and only if they are 4-connected through pixels of that color.
C2_GroupPerComponent ==
    pc = "done" =>
       \A p \in Grid : \A q \in Grid :
          img.pixels[p] = img.pixels[q] => (SameGroup(p, q) <=> Connected(p, q))

\* C3: every point list returned by flood_fill has no repeated point, holds
\* pixels of one color, is 4-connected and is maximal, no two lists share a
\* point, and when find_color_regions returns every pixel is in a list.
C3_Partition ==
    pc \in {"scan", "create"} =>
       /\ \A kj \in Lists :
             LET L == ListAt(kj)
                 S == SeqToSet(L)
             IN  /\ Cardinality(S) = Len(L)
                 /\ L # <<>>
                 /\ \A p \in S : img.pixels[p] = regions[kj[1]].color
                 /\ Reach(S, {L[1]}) = S
                 /\ \A p \in S : \A q \in Grid \ S :
                       Adjacent(p, q) => img.pixels[q] # img.pixels[p]
       /\ \A kj \in Lists : \A lm \in Lists :
             kj # lm => SeqToSet(ListAt(kj)) \cap SeqToSet(ListAt(lm)) = {}
       /\ pc = "create" => UNION {SeqToSet(ListAt(kj)) : kj \in Lists} = Grid

C3_Witness ==
    /\ pc = "create"
    /\ \E kj \in Lists : kj[2] = 2 /\ Len(ListAt(kj)) >= 3

\* C4: on the 3 x 3 grid of one color, extraction yields one component of 9
\* points and its decomposition is the single rectangle (0, 0, 3, 3).
C4_ScenarioA ==
    (pc = "create" /\ ci > Len(regions)) =>
       /\ Len(regions) = 1
       /\ Len(regions[1].comps) = 1
       /\ Len(regions[1].comps[1]) = 9
       /\ rects[1].rects = << <<0, 0, 3, 3>> >>

\* C5: the k-th group written is named Region_k, its rune carries the same
\* name, the names are pairwise distinct, and the first pixel (row-major) of
\* group k precedes the first pixel of group k + 1.
C5_DiscoveryOrder ==
    pc = "done" =>
       /\ \A k \in DOMAIN out.regions :
             /\ out.regions[k].name = <<"Region_", k>>
             /\ out.regions[k].rune = out.regions[k].name
       /\ \A k \in DOMAIN out.regions : \A l \in DOMAIN out.regions :
             k # l => out.regions[k].name # out.regions[l].name
       /\ \A k \in 1 .. (Len(out.regions) - 1) :
             RowMajor(FirstPixel(out.regions[k]))
                < RowMajor(FirstPixel(out.regions[k + 1]))

C5_Witness ==
    /\ pc = "done"
    /\ Len(out.regions) = 3
    /\ \E k \in DOMAIN regions : Len(regions[k].comps) = 2

\* C6: when load_bmp fails main returns with nothing extracted, decomposed or
\* written; the output file is written only after the whole grid has been
\* extracted and decomposed.
C6_AllOrNothing ==
    /\ LoadFails =>
          /\ pc \in {"load", "returned"}
          /\ visited = {}
          /\ regions = <<>>
          /\ rects = <<>>
          /\ out = NoFile
    /\ out # NoFile =>
          /\ pc = "done"
          /\ visited = Grid
          /\ ci > Len(regions)
          /\ Len(rects) = Len(regions)
          /\ \A k \in DOMAIN out.regions : out.regions[k].rects = rects[k].rects

C6_Witness ==
    /\ pc = "returned"
    /\ file.readable
    /\ file.image.size # ExpectedSize

\* C7: whenever split_into_rects emits a rectangle (x0, y0, width, height),
\* some coordinate (x, y0 + height) of its span is absent from the remaining set.
C7_GrowthStopsAtMissingCell ==
    (pc = "split" /\ srects # <<>>) =>
       LET r == srects[Len(srects)]
       IN  ~ SpanPresent(points, r[1], r[3], r[2] + r[4])

\* C8: every iteration of the outer loop of split_into_rects emits one
\* rectangle and leaves a proper subset of the remaining set; the iterations
\* made plus the points remaining never exceed the size of the input, so at
\* most |points| iterations are made and at most |points| rectangles returned,
\* each of width >= 1 and height >= 1, and the function returns with the set
\* empty.
C8_SplitBounded ==
    /\ [][(pc = "split" /\ pc' = "split") =>
            /\ points' \subseteq points
            /\ points' # points
            /\ Len(srects') = Len(srects) + 1]_vars
    /\ [](/\ pc = "split" =>
             /\ points \subseteq SplitInput
             /\ Len(srects) + Cardinality(points) <= Cardinality(SplitInput)
             /\ \A j \in DOMAIN srects : srects[j][3] >= 1 /\ srects[j][4] >= 1
          /\ pc \in {"create", "xml"} => points = {})

C8_Witness ==
    /\ pc = "split"
    /\ points = {}
    /\ Cardinality(SplitInput) >= 3
    /\ Len(srects) = Cardinality(SplitInput)

\* C9: each coordinate of the grid is recorded at most once, exactly when it
\* is marked visited, is put on a queue at most 4 times as a neighbour and at
\* most once as a seed; a running flood_fill has popped and queued together
\* one seed plus four neighbours per recorded point, and after it the queue is
\* empty.
C9_BoundedWork ==
    /\ \A c \in DOMAIN enq :
          /\ recorded[c] <= 1
          /\ (recorded[c] = 1) <=> (c \in visited)
          /\ enq[c] <= 4
          /\ seeded[c] <= 1
    /\ pc = "fill" =>
          /\ pops + Len(queue) = 1 + 4 * Len(region_points)
          /\ Len(region_points) <= Width * Height
    /\ pc # "fill" => queue = <<>>

C9_Witness ==
    /\ pc = "create"
    /\ \E c \in DOMAIN enq : enq[c] = 4 /\ seeded[c] = 1 /\ recorded[c] = 1

\* C10: every rectangle emitted by split_into_rects has height 1 or 2.
C10_HeightAtMostTwo ==
    /\ pc = "split" => \A j \in DOMAIN srects : srects[j][4] \in {1, 2}
    /\ \A k \in DOMAIN rects : \A j \in DOMAIN rects[k].rects :
          rects[k].rects[j][4] \in {1, 2}

C10_Witness ==
    /\ pc = "split"
    /\ srects # <<>>
    /\ LET r == srects[Len(srects)]
       IN  r[4] = 2 /\ SpanPresent(points, r[1], r[3], r[2] + 2)

====
